---- MODULE Spec2Model ----
(***************************************************************************)
(* Model of the hotkey listener of intel-speech-to-text                    *)
(* (src/key_listener.py): the event loop of main(), the capture process   *)
(* it spawns and stops, and the transcribe-and-type pipeline.              *)
(***************************************************************************)
EXTENDS Integers, Sequences, FiniteSets, TLC

\* ----------------------------------------------------------------- bounds
MaxEvents == 4     \* input events delivered by the device in one run
MaxQueue  == 2     \* events buffered by the device while the loop is busy
MaxLen    == 2     \* characters in a raw transcription result
MaxSegs   == 2     \* segments the model yields for one artifact
MaxDevs   == 2     \* event devices under /dev/input

\* -------------------------------------------------------------- constants
None      == 0     \* recording_process = None
key_up    == 0     \* KeyEvent.key_up
key_down  == 1     \* KeyEvent.key_down
key_hold  == 2     \* KeyEvent.key_hold, the literal 2 of the repeat filter
killed_by_sigint == 130  \* exit status when an uncaught KeyboardInterrupt ends the interpreter

Pids   == 1..MaxEvents
Chars  == {" ", "a"}
Events == [type : {"EV_KEY"}, code : {"TRIGGER", "OTHER"}, value : {key_up, key_down, key_hold}]
            \cup [type : {"EV_REL"}, code : {"OTHER"}, value : {key_down}]
Texts  == UNION {[1..n -> Chars] : n \in 0..MaxLen}

VARIABLES
  pc,                 \* where the control thread of main() is
  queue,              \* events the device has buffered, oldest first
  arrived,            \* number of events the device has delivered
  recording_process,  \* the session slot: None or the pid of the Popen handle
  procs,              \* pid -> "unborn" | "running" | "signalled" | "exited"
  stalled,            \* pids of capture processes that ignore SIGTERM
  audio_file,         \* pid of the capture process that last wrote the artifact, 0 if none
  type_calls,         \* texts passed to ydotool type, in call order
  log,                \* error logged by the latest step of the control thread
  exit_code,          \* exit status of the listener, meaningful once pc = "exited"
  nDownIdle,          \* trigger key-downs handled while the slot was empty
  nUpRec,             \* trigger key-ups handled while the slot was occupied
  nStops,             \* terminate-and-wait calls issued by the key-up branch
  last,               \* class of the latest event handled by the loop
  interrupted,        \* the operator has interrupted the listener
  \* speech_to_text.py main(), and transcribe_and_type on the same artifact
  segments,           \* the raw segment texts the model yields for the artifact
  s_pc,               \* "idle" | "loop" | "typing" | "done" (status 0) | "failed" (status 1)
  s_idx,              \* segments the generator of transcribe() has consumed
  s_calls,            \* texts passed to ydotool type by type_text, in call order
  s_log,              \* error logged by the script
  ydotool_ok,         \* shutil.which("ydotool") finds the typing executable
  socket_ok,          \* the ydotool daemon socket exists on the filesystem
  \* device resolution at the start of key_listener.py main()
  glob,               \* numbers of the event devices, in the order glob returned them
  dev,                \* device number -> what opening the device shows
  trigger_keycode,    \* config.TRIGGER_KEYCODE
  cfg_exists,         \* os.path.exists(config.DEVICE_PATH)
  r_pc,               \* "idle" | "start" | "detected" | "open" | "listening" | "exit1"
  r_detected,         \* result of find_keyboard_device: <<>> for None, else <<number>>
  r_path,             \* device_path of main: <<"event", number>> or <<"configured">>
  \* detect_keyboard.py on the same devices and trigger keycode
  h_pc,               \* "idle" | "start" | "done"
  found_devices       \* found_devices of detect_keyboard_devices, in append order

listener_vars ==
  <<pc, queue, arrived, recording_process, procs, stalled, audio_file,
    type_calls, log, exit_code, nDownIdle, nUpRec, nStops, last,
    interrupted>>

script_vars == <<segments, s_pc, s_idx, s_calls, s_log, ydotool_ok, socket_ok>>

resolve_vars ==
  <<glob, dev, trigger_keycode, cfg_exists, r_pc, r_detected, r_path,
    h_pc, found_devices>>

vars == <<listener_vars, script_vars, resolve_vars>>

\* ------------------------------------------------------- pure operators

\* str.strip() on a sequence of characters
RECURSIVE LStrip(_)
LStrip(s) == IF s # <<>> /\ Head(s) = " " THEN LStrip(Tail(s)) ELSE s

RECURSIVE RStrip(_)
RStrip(s) == IF s # <<>> /\ s[Len(s)] = " " THEN RStrip(SubSeq(s, 1, Len(s) - 1)) ELSE s

\* the call of strip() forgotten
StripNothing(s) == s

\* text.strip()
Strip(s) == RStrip(LStrip(s))

\* the argument handed to ydotool type: text + " "
TypedArg(t) == Append(t, " ")

\* the socket check of transcribe_and_type forgotten
PreCheckNoSocket(which, sock) ==
  IF ~which THEN "ydotool_not_found" ELSE "none"

\* the two checks of transcribe_and_type before the injection call, in order
PreCheck(which, sock) ==
  IF ~which THEN "ydotool_not_found"
  ELSE IF ~sock THEN "socket_missing"
  ELSE "none"

\* transcribe_and_type from the result of model.transcribe up to the
\* injection call: the error logged and the injection calls started (none
\* or one)
PipelineOutcome(raw, which, sock) ==
  LET t == Strip(raw) IN
  IF t = <<>> THEN [log |-> "none", calls |-> <<>>]
  ELSE IF PreCheck(which, sock) # "none"
  THEN [log |-> PreCheck(which, sock), calls |-> <<>>]
  ELSE [log |-> "none", calls |-> <<TypedArg(t)>>]

\* device.read_loop() yields the buffered events oldest first
NextEvent(q) == Head(q)

\* the keycode filter forgotten: every key reaches the state machine
DiscardedAnyKey(e) ==
  \/ e.type # "EV_KEY"
  \/ e.value = key_hold

\* the filters at the top of the loop body: non-key events, repeats and
\* other keycodes are skipped with continue
Discarded(e) ==
  \/ e.type # "EV_KEY"
  \/ e.value = key_hold
  \/ e.code # "TRIGGER"

\* the start guard without its `recording_process is None` test
StartBranchNoGuard(e, rp) == e.value = key_down

\* if key_event.keystate == key_event.key_down and recording_process is None
StartBranch(e, rp) == e.value = key_down /\ rp = None

\* the stop guard without its key-up test
StopBranchAnyState(e, rp) == rp # None

\* the stop guard without its `and recording_process` test
StopBranchNoGuard(e, rp) == e.value = key_up

\* elif key_event.keystate == key_event.key_up and recording_process
StopBranch(e, rp) == e.value = key_up /\ rp # None

\* a spawn failure after which the loop goes on
SpawnFailureContinue(kind) == "read"

\* where control goes when Popen raises: FileNotFoundError is caught at the
\* call (the clause then logs and raises SystemExit(1)); any other error is
\* caught by the catch-all of main(); both leave the loop, and neither
\* clause has logged anything yet when it is entered
SpawnFailure(kind) ==
  IF kind = "FileNotFoundError" THEN "spawn_failed" ELSE "handler"

\* Popen.terminate(): SIGTERM to a process that has not exited yet
Terminate(ps, p) ==
  IF ps[p] = "running" THEN [ps EXCEPT ![p] = "signalled"] ELSE ps

\* a wait that does not wait
WaitReturnsAtOnce(pstate) == TRUE

\* recording_process.wait() without timeout returns once the process exited
WaitReturns(pstate) == pstate = "exited"

\* the slot emptied before the pipeline is entered
SlotClearedEarly(rp) == None

\* the slot while transcribe_and_type runs: untouched until the finally
SlotDuringPipeline(rp) == rp

\* the finally clause forgotten
SlotKept(rp) == rp

\* finally: recording_process = None
SlotAfterPipeline(rp) == None

\* if recording_process: recording_process.terminate() in the outer finally
ShutdownTerminate(ps, rp) == IF rp # None THEN Terminate(ps, rp) ELSE ps

NextPid == CHOOSE p \in Pids : procs[p] = "unborn" /\ \A q \in Pids : q < p => procs[q] # "unborn"

Live == {p \in Pids : procs[p] \in {"running", "signalled"}}

Started == {p \in Pids : procs[p] # "unborn"}

\* the child that the Popen call in progress has forked: the latest one
SpawnedPid == CHOOSE p \in Started : \A q \in Started : q <= p

\* class of a handled event, for the record of what the loop has seen
Class(e, rp) ==
  IF e.type # "EV_KEY" \/ e.code # "TRIGGER" \/ e.value = key_hold THEN "other"
  ELSE IF e.value = key_down THEN (IF rp = None THEN "down_idle" ELSE "down_rec")
  ELSE (IF rp = None THEN "up_idle" ELSE "up_rec")

\* ------------------------------------------------------------------ Init

\* the listener as main() leaves it before the first event is read
ListenerInit ==
  /\ pc = "read"
  /\ queue = <<>>
  /\ arrived = 0
  /\ recording_process = None
  /\ procs = [p \in Pids |-> "unborn"]
  /\ stalled = {}
  /\ audio_file = 0
  /\ type_calls = <<>>
  /\ log = "none"
  /\ exit_code = 0
  /\ nDownIdle = 0
  /\ nUpRec = 0
  /\ nStops = 0
  /\ last = "none"
  /\ interrupted = FALSE

\* the standalone script is not running
ScriptIdle ==
  /\ segments = <<>>
  /\ s_pc = "idle"
  /\ s_idx = 0
  /\ s_calls = <<>>
  /\ s_log = "none"
  /\ ydotool_ok = TRUE
  /\ socket_ok = TRUE

\* device resolution is over and the device is open
ResolveDone ==
  /\ glob = <<>>
  /\ dev = <<>>
  /\ trigger_keycode = "KEY_RIGHTCTRL"
  /\ cfg_exists = TRUE
  /\ r_pc = "listening"
  /\ r_detected = <<>>
  /\ h_pc = "idle"
  /\ found_devices = <<>>
  /\ r_path = <<"configured">>

Init ==
  /\ ListenerInit
  /\ ScriptIdle
  /\ ResolveDone

\* --------------------------------------------------------- environment

\* the places where the control thread is inside the try block of main()
InLoop ==
  {"read", "starting", "spawning", "spawn_failed", "stopping", "stop_wait",
   "transcribing", "typing"}

\* the loop has been left: an except clause of main(), its finally, or the end
LeftLoop == {"handler", "finally", "shutdown_wait", "exited"}

\* the kernel appends an input event to the device's buffer
KeyArrive ==
  /\ pc # "exited"
  /\ arrived < MaxEvents
  /\ Len(queue) < MaxQueue
  /\ \E e \in Events : queue' = Append(queue, e)
  /\ arrived' = arrived + 1
  /\ UNCHANGED <<pc, recording_process, procs, stalled, audio_file, type_calls,
                 log, exit_code, nDownIdle, nUpRec, nStops, last>>
  /\ UNCHANGED interrupted
  /\ UNCHANGED <<script_vars, resolve_vars>>

\* a capture process writes the artifact (arecord creates and fills the file)
ProcWrite ==
  /\ \E p \in Pids : procs[p] = "running" /\ audio_file # p /\ audio_file' = p
  /\ UNCHANGED <<pc, queue, arrived, recording_process, procs, stalled, type_calls,
                 log, exit_code, nDownIdle, nUpRec, nStops, last>>
  /\ UNCHANGED interrupted
  /\ UNCHANGED <<script_vars, resolve_vars>>

\* a capture process obeys SIGTERM
ProcObey ==
  /\ \E p \in Pids : procs[p] = "signalled" /\ p \notin stalled
                     /\ procs' = [procs EXCEPT ![p] = "exited"]
  /\ UNCHANGED <<pc, queue, arrived, recording_process, stalled, audio_file, type_calls,
                 log, exit_code, nDownIdle, nUpRec, nStops, last>>
  /\ UNCHANGED interrupted
  /\ UNCHANGED <<script_vars, resolve_vars>>

\* a capture process exits on its own (sudo or arecord fails, device busy)
ProcDie ==
  /\ \E p \in Pids : procs[p] = "running"
                     /\ procs' = [procs EXCEPT ![p] = "exited"]
  /\ UNCHANGED <<pc, queue, arrived, recording_process, stalled, audio_file, type_calls,
                 log, exit_code, nDownIdle, nUpRec, nStops, last>>
  /\ UNCHANGED interrupted
  /\ UNCHANGED <<script_vars, resolve_vars>>

\* ------------------------------------------------------ the event loop

\* one iteration of `for event in device.read_loop()` from the event taken
\* to the branch chosen: the filters skip the event, or a start or a stop
\* is entered (its first statement logs), or neither guard holds
HandleEvent ==
  /\ pc = "read"
  /\ queue # <<>>
  /\ LET e  == NextEvent(queue)
         rp == recording_process
     IN
     /\ queue' = Tail(queue)
     /\ last' = Class(e, rp)
     /\ nDownIdle' = IF Class(e, rp) = "down_idle" THEN nDownIdle + 1 ELSE nDownIdle
     /\ nUpRec' = IF Class(e, rp) = "up_rec" THEN nUpRec + 1 ELSE nUpRec
     /\ pc' = IF Discarded(e) THEN "read"
              ELSE IF StartBranch(e, rp) THEN "starting"
              ELSE IF StopBranch(e, rp) THEN "stopping"
              ELSE "read"
  /\ log' = "none"
  /\ UNCHANGED <<arrived, recording_process, procs, stalled, audio_file, type_calls,
                 exit_code, nStops>>
  /\ UNCHANGED interrupted
  /\ UNCHANGED <<script_vars, resolve_vars>>

\* subprocess.Popen is called: it forks the child (Popen has not returned
\* and the slot is not assigned yet), or it raises
SpawnCall ==
  /\ pc = "starting"
  /\ \E outcome \in {"ok", "FileNotFoundError", "OSError"} :
       IF outcome = "ok"
       THEN /\ procs' = [procs EXCEPT ![NextPid] = "running"]
            /\ pc' = "spawning"
            /\ \E st \in BOOLEAN :
                 stalled' = IF st THEN stalled \cup {NextPid} ELSE stalled
            /\ UNCHANGED log
       ELSE /\ pc' = SpawnFailure(outcome)
            /\ UNCHANGED <<procs, stalled, log>>
  /\ UNCHANGED <<queue, arrived, recording_process, audio_file, type_calls,
                 exit_code, nDownIdle, nUpRec, nStops, last>>
  /\ UNCHANGED interrupted
  /\ UNCHANGED <<script_vars, resolve_vars>>

\* recording_process.terminate() is called and wait() is entered
StopCall ==
  /\ pc = "stopping"
  /\ IF recording_process = None
     THEN \* None.terminate() raises AttributeError, caught by the catch-all
          /\ pc' = "handler"
          /\ UNCHANGED <<procs, nStops, log>>
     ELSE /\ procs' = Terminate(procs, recording_process)
          /\ nStops' = nStops + 1
          /\ pc' = "stop_wait"
          /\ UNCHANGED log
  /\ UNCHANGED <<queue, arrived, recording_process, stalled, audio_file, type_calls,
                 exit_code, nDownIdle, nUpRec, last>>
  /\ UNCHANGED interrupted
  /\ UNCHANGED <<script_vars, resolve_vars>>

\* subprocess.Popen returns and its result is assigned to recording_process
SpawnReturn ==
  /\ pc = "spawning"
  /\ recording_process' = SpawnedPid
  /\ pc' = "read"
  /\ UNCHANGED <<queue, arrived, procs, stalled, audio_file, type_calls,
                 log, exit_code, nDownIdle, nUpRec, nStops, last>>
  /\ UNCHANGED interrupted
  /\ UNCHANGED <<script_vars, resolve_vars>>

\* recording_process.wait() returns; transcribe_and_type is entered
StopWaitReturn ==
  /\ pc = "stop_wait"
  /\ WaitReturns(procs[recording_process])
  /\ pc' = "transcribing"
  /\ recording_process' = SlotDuringPipeline(recording_process)
  /\ log' = "none"
  /\ UNCHANGED <<queue, arrived, procs, stalled, audio_file, type_calls,
                 exit_code, nDownIdle, nUpRec, nStops, last>>
  /\ UNCHANGED interrupted
  /\ UNCHANGED <<script_vars, resolve_vars>>

\* model.transcribe raises: except Exception, then finally
TranscribeRaises ==
  /\ pc = "transcribing"
  /\ log' = "stt_failed"
  /\ pc' = "read"
  /\ recording_process' = SlotAfterPipeline(recording_process)
  /\ UNCHANGED <<queue, arrived, procs, stalled, audio_file, type_calls,
                 exit_code, nDownIdle, nUpRec, nStops, last, interrupted>>

\* model.transcribe returns raw; the checks before the ydotool call find
\* the executable or not (which) and the socket or not (sock)
TranscribeWith(raw, which, sock) ==
  /\ pc = "transcribing"
  /\ LET o == PipelineOutcome(raw, which, sock) IN
     /\ log' = o.log
     /\ type_calls' = type_calls \o o.calls
     /\ IF o.calls = <<>>
        THEN /\ pc' = "read"
             /\ recording_process' = SlotAfterPipeline(recording_process)
        ELSE /\ pc' = "typing"
             /\ UNCHANGED recording_process
  /\ UNCHANGED <<queue, arrived, procs, stalled, audio_file,
                 exit_code, nDownIdle, nUpRec, nStops, last, interrupted>>

\* transcribe_and_type up to its return or its injection call
Transcribe ==
  /\ \/ TranscribeRaises
     \/ \E raw \in Texts, which \in BOOLEAN, sock \in BOOLEAN :
          TranscribeWith(raw, which, sock)
  /\ UNCHANGED <<script_vars, resolve_vars>>

\* subprocess.run(["ydotool", "type", ...], check=True) returns or raises
TypeReturn ==
  /\ pc = "typing"
  /\ \E outcome \in {"ok", "CalledProcessError", "OSError"} :
       log' = IF outcome = "ok" THEN "none"
              ELSE IF outcome = "CalledProcessError" THEN "ydotool_nonzero"
              ELSE "stt_failed"
  /\ pc' = "read"
  /\ recording_process' = SlotAfterPipeline(recording_process)
  /\ UNCHANGED <<queue, arrived, procs, stalled, audio_file, type_calls,
                 exit_code, nDownIdle, nUpRec, nStops, last>>
  /\ UNCHANGED interrupted
  /\ UNCHANGED <<script_vars, resolve_vars>>

\* raise SystemExit(1) after the log of the missing executable: no except
\* clause of main() catches it, the finally runs with status 1 pending
RaiseSystemExit ==
  /\ pc = "spawn_failed"
  /\ log' = "arecord_not_found"
  /\ pc' = "finally"
  /\ exit_code' = 1
  /\ UNCHANGED <<queue, arrived, recording_process, procs, stalled, audio_file, type_calls,
                 nDownIdle, nUpRec, nStops, last>>
  /\ UNCHANGED interrupted
  /\ UNCHANGED <<script_vars, resolve_vars>>

\* KeyboardInterrupt inside the try block, caught by `except
\* KeyboardInterrupt`: before Popen or terminate() is called nothing is
\* forked or signalled, inside Popen the slot has not been assigned yet,
\* inside the pipeline the inner finally empties the slot on the way out,
\* inside the `except FileNotFoundError` clause SystemExit is never raised
\* and the interrupt lands before or after the error line was written
Interrupt ==
  /\ pc \in InLoop
  /\ recording_process' = IF pc \in {"transcribing", "typing"}
                          THEN SlotAfterPipeline(recording_process)
                          ELSE recording_process
  /\ pc' = "handler"
  /\ exit_code' = 0
  /\ log' \in IF pc = "spawn_failed" THEN {"none", "arecord_not_found"} ELSE {"none"}
  /\ UNCHANGED <<queue, arrived, procs, stalled, audio_file, type_calls,
                 nDownIdle, nUpRec, nStops, last>>
  /\ interrupted' = TRUE
  /\ UNCHANGED <<script_vars, resolve_vars>>

\* device.read_loop() raises (device unplugged, I/O error): caught by the
\* catch-all `except Exception`, whose logging.exception has not run yet
StreamError ==
  /\ pc = "read"
  /\ pc' = "handler"
  /\ exit_code' = 0
  /\ UNCHANGED <<queue, arrived, recording_process, procs, stalled, audio_file, type_calls,
                 log, nDownIdle, nUpRec, nStops, last>>
  /\ UNCHANGED interrupted
  /\ UNCHANGED <<script_vars, resolve_vars>>

\* the error line the except clause of main() writes: the catch-all calls
\* logging.exception("Unhandled error"), the KeyboardInterrupt clause logs
\* no error
HandlerLog == IF interrupted THEN log ELSE "unhandled"

\* the except clause logs; the finally is entered
HandlerDone ==
  /\ pc = "handler"
  /\ log' = HandlerLog
  /\ pc' = "finally"
  /\ UNCHANGED <<queue, arrived, recording_process, procs, stalled, audio_file, type_calls,
                 exit_code, nDownIdle, nUpRec, nStops, last>>
  /\ UNCHANGED interrupted
  /\ UNCHANGED <<script_vars, resolve_vars>>

\* the outer finally: if recording_process: recording_process.terminate()
ShutdownEnter ==
  /\ pc = "finally"
  /\ procs' = ShutdownTerminate(procs, recording_process)
  /\ pc' = IF recording_process # None THEN "shutdown_wait" ELSE "exited"
  /\ UNCHANGED <<queue, arrived, recording_process, stalled, audio_file, type_calls,
                 log, exit_code, nDownIdle, nUpRec, nStops, last>>
  /\ UNCHANGED interrupted
  /\ UNCHANGED <<script_vars, resolve_vars>>

\* recording_process.wait(timeout=1) returns in time; the process ends with
\* the status that was pending when the finally was entered
ShutdownWaitReturn ==
  /\ pc = "shutdown_wait"
  /\ WaitReturns(procs[recording_process])
  /\ pc' = "exited"
  /\ UNCHANGED <<queue, arrived, recording_process, procs, stalled, audio_file, type_calls,
                 log, exit_code, nDownIdle, nUpRec, nStops, last>>
  /\ UNCHANGED interrupted
  /\ UNCHANGED <<script_vars, resolve_vars>>

\* recording_process.wait(timeout=1) raises TimeoutExpired out of the finally
ShutdownTimeout ==
  /\ pc = "shutdown_wait"
  /\ ~WaitReturns(procs[recording_process])
  /\ pc' = "exited"
  /\ exit_code' = 1
  /\ UNCHANGED <<queue, arrived, recording_process, procs, stalled, audio_file, type_calls,
                 log, nDownIdle, nUpRec, nStops, last>>
  /\ UNCHANGED interrupted
  /\ UNCHANGED <<script_vars, resolve_vars>>

\* KeyboardInterrupt after the loop was left: nothing catches it. Inside an
\* except clause the finally still runs and the interpreter then ends killed
\* by SIGINT; inside the finally, before terminate() or inside
\* wait(timeout=1), the interpreter ends at once
ShutdownInterrupt ==
  /\ pc \in {"handler", "finally", "shutdown_wait"}
  /\ pc' = IF pc = "handler" THEN "finally" ELSE "exited"
  /\ log' \in IF pc = "handler" THEN {log, HandlerLog} ELSE {log}
  /\ exit_code' = killed_by_sigint
  /\ interrupted' = TRUE
  /\ UNCHANGED <<queue, arrived, recording_process, procs, stalled, audio_file, type_calls,
                 nDownIdle, nUpRec, nStops, last>>
  /\ UNCHANGED <<script_vars, resolve_vars>>

Next ==
  \/ KeyArrive
  \/ ProcWrite
  \/ ProcObey
  \/ ProcDie
  \/ HandleEvent
  \/ SpawnCall
  \/ SpawnReturn
  \/ StopCall
  \/ StopWaitReturn
  \/ Transcribe
  \/ TypeReturn
  \/ RaiseSystemExit
  \/ Interrupt
  \/ StreamError
  \/ HandlerDone
  \/ ShutdownEnter
  \/ ShutdownWaitReturn
  \/ ShutdownTimeout
  \/ ShutdownInterrupt

Spec == Init /\ [][Next]_vars

\* the control thread runs whenever it is not blocked, a capture process
\* that handles SIGTERM exits, and the one-second timeout of the shutdown
\* wait expires; key events, interrupts and crashes are up to the environment
FairSpec ==
  /\ Spec
  /\ WF_vars(HandleEvent)
  /\ WF_vars(SpawnCall)
  /\ WF_vars(SpawnReturn)
  /\ WF_vars(StopCall)
  /\ WF_vars(StopWaitReturn)
  /\ WF_vars(Transcribe)
  /\ WF_vars(TypeReturn)
  /\ WF_vars(RaiseSystemExit)
  /\ WF_vars(HandlerDone)
  /\ WF_vars(ShutdownEnter)
  /\ WF_vars(ShutdownWaitReturn)
  /\ WF_vars(ShutdownTimeout)
  /\ WF_vars(ProcObey)

TypeOK ==
  /\ pc \in InLoop \cup LeftLoop
  /\ exit_code \in {0, 1, killed_by_sigint}
  /\ recording_process \in {None} \cup Pids
  /\ Len(queue) <= MaxQueue
  /\ arrived \in 0..MaxEvents

\* ------------------------------------- the pipeline on one artifact

SegSeqs == UNION {[1..n -> Texts] : n \in 0..MaxSegs}

\* result["text"] of whisper: the texts of the segments, joined
RECURSIVE WhisperText(_)
WhisperText(segs) == IF segs = <<>> THEN <<>> ELSE Head(segs) \o WhisperText(Tail(segs))

\* the checks of type_text before its injection call, in order
TypeTextCheck(which, sock) ==
  IF ~which THEN "ydotool_not_found"
  ELSE IF ~sock THEN "socket_missing"
  ELSE "none"

\* the trailing space of type_text forgotten
TypeTextArgNoSpace(t) == t

\* the argument type_text hands to ydotool type: text + " "
TypeTextArg(t) == Append(t, " ")

\* the listener right after the wait of a stop on its first session: the
\* capture process has exited and transcribe_and_type is entered
ListenerAtPipeline ==
  /\ pc = "transcribing"
  /\ queue = <<>>
  /\ arrived = 2
  /\ recording_process = 1
  /\ procs = [p \in Pids |-> IF p = 1 THEN "exited" ELSE "unborn"]
  /\ stalled = {}
  /\ audio_file = 1
  /\ type_calls = <<>>
  /\ log = "none"
  /\ exit_code = 0
  /\ nDownIdle = 1
  /\ nUpRec = 1
  /\ nStops = 1
  /\ last = "up_rec"
  /\ interrupted = FALSE

\* an artifact has been recorded; the script and the listener's
\* transcribe_and_type are each about to process it
PipeInit ==
  /\ ListenerAtPipeline
  /\ ydotool_ok \in BOOLEAN
  /\ socket_ok \in BOOLEAN
  /\ segments \in SegSeqs
  /\ s_pc = "loop"
  /\ s_idx = 0
  /\ s_calls = <<>>
  /\ s_log = "none"
  /\ ResolveDone

\* one turn of `for text in transcribe(audio, model): type_text(text, ...)`
\* up to the start of the injection call: the generator strips the next
\* segment and skips it if empty, type_text checks and raises SystemExit(1)
\* after logging, or calls subprocess.run
ScriptSegment ==
  /\ s_pc = "loop"
  /\ s_idx < Len(segments)
  /\ s_idx' = s_idx + 1
  /\ LET t == Strip(segments[s_idx + 1]) IN
     IF t = <<>>
     THEN UNCHANGED <<s_pc, s_calls, s_log>>
     ELSE IF TypeTextCheck(ydotool_ok, socket_ok) # "none"
     THEN /\ s_log' = TypeTextCheck(ydotool_ok, socket_ok)
          /\ s_pc' = "failed"
          /\ UNCHANGED s_calls
     ELSE /\ s_calls' = Append(s_calls, TypeTextArg(t))
          /\ s_pc' = "typing"
          /\ UNCHANGED s_log
  /\ UNCHANGED <<segments, ydotool_ok, socket_ok>>
  /\ UNCHANGED <<listener_vars, resolve_vars>>

\* subprocess.run(["ydotool", "type", ...], check=True) of type_text returns
\* or raises: CalledProcessError is logged by main and turned into
\* SystemExit(1); OSError (the executable cannot be run) is caught nowhere
\* and ends the script with a traceback and status 1, nothing logged
ScriptTypeReturn ==
  /\ s_pc = "typing"
  /\ \E outcome \in {"ok", "CalledProcessError", "OSError"} :
       /\ s_pc' = IF outcome = "ok" THEN "loop" ELSE "failed"
       /\ s_log' = IF outcome = "CalledProcessError" THEN "ydotool_nonzero" ELSE s_log
  /\ UNCHANGED <<segments, s_idx, s_calls, ydotool_ok, socket_ok>>
  /\ UNCHANGED <<listener_vars, resolve_vars>>

\* the speech model raises, in model.transcribe or while the generator
\* fetches a segment, be there a further segment or not: caught nowhere, the script ends with a traceback and status 1
ScriptModelRaises ==
  /\ s_pc = "loop"
  /\ s_pc' = "failed"
  /\ UNCHANGED <<segments, s_idx, s_calls, s_log, ydotool_ok, socket_ok>>
  /\ UNCHANGED <<listener_vars, resolve_vars>>

\* the generator is exhausted: "Processing completed"
ScriptFinish ==
  /\ s_pc = "loop"
  /\ s_idx = Len(segments)
  /\ s_pc' = "done"
  /\ UNCHANGED <<segments, s_idx, s_calls, s_log, ydotool_ok, socket_ok>>
  /\ UNCHANGED <<listener_vars, resolve_vars>>

\* transcribe_and_type of the listener on the same artifact, in the same
\* typing environment
ListenerRound ==
  /\ TranscribeWith(WhisperText(segments), ydotool_ok, socket_ok)
  /\ UNCHANGED <<script_vars, resolve_vars>>

\* model.transcribe of the listener raises on the artifact
ListenerRaises ==
  /\ TranscribeRaises
  /\ UNCHANGED <<script_vars, resolve_vars>>

PipeNext ==
  \/ ScriptSegment
  \/ ScriptTypeReturn
  \/ ScriptModelRaises
  \/ ScriptFinish
  \/ ListenerRound
  \/ ListenerRaises
  \/ TypeReturn

PipeSpec == PipeInit /\ [][PipeNext]_vars

\* ------------------------------------------------- device resolution

DevNums == 0..(MaxDevs - 1)

\* what glob("event*") may return: distinct device numbers in any order
GlobOrders ==
  {g \in UNION {[1..n -> DevNums] : n \in 0..MaxDevs} :
     \A i, j \in DOMAIN g : i # j => g[i] # g[j]}

\* the key names evdev.ecodes.ecodes knows
KnownCodes == {"KEY_A", "KEY_RIGHTCTRL"}

TriggerNames == {"KEY_RIGHTCTRL", "KEY_BOGUS"}

DevNames == {<<"K", "b", "d">>, <<"K", "E", "Y">>, <<"M", "i", "c">>}

\* the capabilities of a device (whether it supports EV_KEY, and which key
\* codes) and whether the object that opening it gives has a `cap`
\* attribute showing them, which the hasattr guard of the code leaves open
CapKinds ==
  { [has_cap |-> h, ev_key |-> k.ev_key, keys |-> k.keys] :
      h \in BOOLEAN,
      k \in { [ev_key |-> FALSE, keys |-> {}],
              [ev_key |-> TRUE,  keys |-> {"KEY_A"}],
              [ev_key |-> TRUE,  keys |-> {"KEY_A", "KEY_RIGHTCTRL"}] } }

\* a device that cannot be opened, or an open device with its capabilities
\* and name
DevKinds ==
  {[openable |-> FALSE, has_cap |-> FALSE, ev_key |-> FALSE, keys |-> {}, name |-> <<>>]}
    \cup {[openable |-> TRUE, has_cap |-> c.has_cap, ev_key |-> c.ev_key,
           keys |-> c.keys, name |-> n] :
            c \in CapKinds, n \in DevNames}

Keywords ==
  { <<"k", "e", "y", "b", "o", "a", "r", "d">>, <<"k", "e", "y">>, <<"k", "b", "d">> }

\* str.lower() on the characters the device names use
LowerChar(c) ==
  CASE c = "K" -> "k" [] c = "B" -> "b" [] c = "D" -> "d" [] c = "E" -> "e"
    [] c = "Y" -> "y" [] c = "M" -> "m" [] OTHER -> c

Lower(t) == [i \in 1..Len(t) |-> LowerChar(t[i])]

\* keyword in device_name_lower
Contains(sub, t) ==
  \E i \in 1..(Len(t) - Len(sub) + 1) : SubSeq(t, i, i + Len(sub) - 1) = sub

\* the name test without lower()
NameMatchesCaseSensitive(name) == \E kw \in Keywords : Contains(kw, name)

\* any(keyword in device_name_lower for keyword in ['keyboard', 'key', 'kbd'])
NameMatches(name) == \E kw \in Keywords : Contains(kw, Lower(name))

\* evdev.ecodes.ecodes.get(trigger_keycode): <<>> for None
Ecode(name) == IF name \in KnownCodes THEN <<name>> ELSE <<>>

Lowest(S) == CHOOSE x \in S : \A y \in S : x <= y

\* event_devices.sort(key=lambda x: int(x.name.replace("event", "")))
RECURSIVE SortByNumber(_)
SortByNumber(g) ==
  IF g = <<>> THEN <<>>
  ELSE LET m == Lowest({g[i] : i \in DOMAIN g})
       IN <<m>> \o SortByNumber(SelectSeq(g, LAMBDA x : x # m))

\* the test of the first loop on a device: it opens, has a `cap` attribute
\* with EV_KEY in it, and the trigger code is among the keys listed there
HasTrigger(dv, code) == dv.openable /\ dv.has_cap /\ dv.ev_key /\ code \in dv.keys

\* find_keyboard_device: <<>> for None, else <<device number>>
FindKeyboardDevice(g, dv, keycode) ==
  LET event_devices == SortByNumber(g)
      evcode == Ecode(keycode)
      byKey  == {i \in DOMAIN event_devices : HasTrigger(dv[event_devices[i]], evcode[1])}
      byName == {i \in DOMAIN event_devices :
                   /\ dv[event_devices[i]].openable
                   /\ NameMatches(dv[event_devices[i]].name)}
  IN IF evcode = <<>> THEN <<>>
     ELSE IF byKey # {} THEN <<event_devices[Lowest(byKey)]>>
     ELSE IF byName # {} THEN <<event_devices[Lowest(byName)]>>
     ELSE <<>>

\* main() is about to resolve the device
ResolveInit ==
  /\ ListenerInit
  /\ ScriptIdle
  /\ glob \in GlobOrders
  /\ dev \in [{glob[i] : i \in DOMAIN glob} -> DevKinds]
  /\ trigger_keycode \in TriggerNames
  /\ cfg_exists \in BOOLEAN
  /\ r_pc = "start"
  /\ r_detected = <<>>
  /\ r_path = <<>>
  /\ h_pc = "start"
  /\ found_devices = <<>>

\* detected_device = find_keyboard_device(trigger_key)
ResolveDetect ==
  /\ r_pc = "start"
  /\ r_detected' = FindKeyboardDevice(glob, dev, trigger_keycode)
  /\ r_pc' = "detected"
  /\ UNCHANGED <<glob, dev, trigger_keycode, cfg_exists, r_path, h_pc, found_devices>>
  /\ UNCHANGED <<listener_vars, script_vars>>

\* the detected device, else the configured path if it exists, else SystemExit(1)
ResolveChoose ==
  /\ r_pc = "detected"
  /\ IF r_detected # <<>>
     THEN r_path' = <<"event", r_detected[1]>> /\ r_pc' = "open"
     ELSE IF cfg_exists
     THEN r_path' = <<"configured">> /\ r_pc' = "open"
     ELSE r_pc' = "exit1" /\ UNCHANGED r_path
  /\ UNCHANGED <<glob, dev, trigger_keycode, cfg_exists, r_detected, h_pc, found_devices>>
  /\ UNCHANGED <<listener_vars, script_vars>>

\* device = InputDevice(device_path), SystemExit(1) if it cannot be opened
ResolveOpen ==
  /\ r_pc = "open"
  /\ \E outcome \in {"ok", "FileNotFoundError", "PermissionError"} :
       r_pc' = IF outcome = "ok" THEN "listening" ELSE "exit1"
  /\ UNCHANGED <<glob, dev, trigger_keycode, cfg_exists, r_detected, r_path,
                 h_pc, found_devices>>
  /\ UNCHANGED <<listener_vars, script_vars>>

\* the test of detect_keyboard_devices on a device: it opens and has a `cap`
\* attribute with EV_KEY in it, and then either the trigger code is among the
\* keys or the name holds a keyboard keyword; evcode is <<>> for None
HelperListed(dv, evcode) ==
  /\ dv.openable /\ dv.has_cap /\ dv.ev_key
  /\ \/ evcode # <<>> /\ evcode[1] \in dv.keys
     \/ NameMatches(dv.name)

\* found_devices of detect_keyboard_devices: the listed devices, in event
\* number order
DetectKeyboardDevices(g, dv, keycode) ==
  SelectSeq(SortByNumber(g), LAMBDA d : HelperListed(dv[d], Ecode(keycode)))

\* detect_keyboard_devices(trigger_key) run on the same devices
HelperDetect ==
  /\ h_pc = "start"
  /\ found_devices' = DetectKeyboardDevices(glob, dev, trigger_keycode)
  /\ h_pc' = "done"
  /\ UNCHANGED <<glob, dev, trigger_keycode, cfg_exists, r_pc, r_detected, r_path>>
  /\ UNCHANGED <<listener_vars, script_vars>>

ResolveNext ==
  \/ ResolveDetect
  \/ ResolveChoose
  \/ ResolveOpen
  \/ HelperDetect

ResolveSpec == ResolveInit /\ [][ResolveNext]_vars

\* ---------------------------------------------------------------- claims

InPipeline == pc \in {"transcribing", "typing"}

\* the step in which the loop takes the oldest buffered event
Handles(class) ==
  /\ pc = "read"
  /\ queue # <<>>
  /\ queue' = Tail(queue)
  /\ Class(Head(queue), recording_process) = class

\* C1: at most one capture process started by the listener is alive at any
\* time, and while the loop reads events or waits for a stop a live one is
\* the one the session slot refers to.
C1_AtMostOneSession ==
  /\ Cardinality(Live) <= 1
  /\ pc \in {"read", "stop_wait"} => \A p \in Live : recording_process = p

C1_Witness == Cardinality(Started) >= 2 /\ Cardinality(Live) = 1 /\ pc = "read"

\* the step in which subprocess.Popen, called for a trigger key-down in
\* Idle, raises: the start is left with no capture process brought to life
\* and without an operator interrupt
SpawnFailed ==
  /\ pc = "starting" /\ pc' # "starting"
  /\ Started' = Started
  /\ interrupted' = interrupted

\* C2 (as stated): after a failed spawn the listener stays in Idle and goes
\* on reading events.
C2_StaysResponsive ==
  [][SpawnFailed => (pc' = "read" /\ recording_process' = None)]_vars

\* C2 (amended): a failed spawn leaves no session, but the listener leaves
\* the loop for good: no further event is handled and no capture process
\* is started; unless the operator interrupts it on the way out it logs
\* the error and exits, with status 1 when the executable is missing and
\* with status 0 after any other spawn error.
C2_SpawnFailureExits ==
  /\ [][SpawnFailed =>
          /\ recording_process' = None
          /\ Live' = {}
          /\ pc' \in {"spawn_failed", "handler"}]_vars
  /\ [][(pc \in LeftLoop \cup {"spawn_failed"}) =>
          /\ pc' \in LeftLoop \cup {"spawn_failed"}
          /\ Len(queue') >= Len(queue)
          /\ Started' = Started]_vars
  /\ [][(pc = "spawn_failed" /\ ~interrupted') =>
          (pc' = "finally" => (log' = "arecord_not_found" /\ exit_code' = 1))]_vars
  /\ [][(pc = "handler" /\ ~interrupted') =>
          (pc' = "finally" => (log' = "unhandled" /\ exit_code' = 0))]_vars
  /\ [](pc = "exited" /\ last = "down_idle" /\ recording_process = None /\ ~interrupted =>
          \/ log = "arecord_not_found" /\ exit_code = 1
          \/ log = "unhandled" /\ exit_code = 0)

C2_Witness ==
  /\ pc = "exited" /\ log = "arecord_not_found" /\ exit_code = 1
  /\ last = "down_idle" /\ recording_process = None /\ queue # <<>>

PipelineErrors == {"stt_failed", "ydotool_not_found", "socket_missing", "ydotool_nonzero"}

\* C3: a pipeline step that logs an error makes no further typing call,
\* empties the session slot, leaves no capture process alive and returns
\* to the read of the next event without ending the listener.
C3_PipelineErrorsRecover ==
  [][(InPipeline /\ log' \in PipelineErrors) =>
        /\ type_calls' = type_calls
        /\ recording_process' = None
        /\ Live' = {}
        /\ pc' = "read"
        /\ exit_code' = exit_code]_vars

C3_Witness ==
  /\ log \in PipelineErrors /\ pc = "read" /\ recording_process = None
  /\ last = "up_rec" /\ queue # <<>>

\* C4: a stop never blocks for ever: whenever the loop waits for the capture
\* process after a key-up, it eventually gets past the wait.
C4_StopIsBounded == (pc = "stop_wait") ~> (pc # "stop_wait")

\* C5: no capture process is alive while transcription or typing is in
\* progress, and none is started before the pipeline has returned.
C5_NoOverlap ==
  /\ [](InPipeline => Live = {})
  /\ [][InPipeline => Started' = Started]_vars

C5_Witness == pc = "typing" /\ Started # {} /\ queue # <<>>

\* C6 (as stated): the session slot is empty during the whole pipeline run.
C6_IdleDuringPipeline == InPipeline => recording_process = None

\* C6 (amended): the pipeline is entered only from the completed wait of a
\* stop, it runs with the slot still holding the exited capture process,
\* and the slot is emptied when the pipeline returns to the loop.
C6_SlotClearedAfterPipeline ==
  /\ [](InPipeline => (recording_process # None /\ procs[recording_process] = "exited"))
  /\ [][(~InPipeline /\ InPipeline') => (pc = "stop_wait" /\ pc' = "transcribing")]_vars
  /\ [][(InPipeline /\ ~InPipeline') => recording_process' = None]_vars

C6_Witness == pc = "typing" /\ recording_process # None /\ last = "up_rec"

\* C7: when the listener has exited, no capture process it started is still
\* running without having been sent the terminate signal.
C7_NoLeakOnExit == pc = "exited" => \A p \in Pids : procs[p] # "running"

\* C8 (as stated): capture processes started never outnumber the trigger
\* key-downs handled in Idle, and once the handling of a trigger key-up
\* taken in Recording is over it has issued one stop, which has signalled
\* the process it waits for.
C8_StartsAndStops ==
  /\ Cardinality(Started) <= nDownIdle
  /\ pc # "stopping" => nStops = nUpRec
  /\ pc = "stop_wait" => procs[recording_process] \in {"signalled", "exited"}

\* C8 (amended): starts never outnumber the trigger key-downs handled in
\* Idle; every trigger key-up taken in Recording issues exactly one stop,
\* terminate() on the process in the slot followed by the wait, unless an
\* operator interrupt arrives before terminate() is called: then that
\* key-up issues no stop and the listener leaves the loop.
C8_StopsUnlessInterrupted ==
  /\ [](Cardinality(Started) <= nDownIdle)
  /\ [](nStops <= nUpRec /\ nUpRec <= nStops + 1)
  /\ [](nStops < nUpRec => (pc = "stopping" \/ (pc \in LeftLoop /\ interrupted)))
  /\ [](pc = "stop_wait" => procs[recording_process] \in {"signalled", "exited"})
  /\ [][nStops' # nStops =>
          /\ pc = "stopping" /\ last = "up_rec" /\ pc' = "stop_wait"
          /\ nStops' = nStops + 1
          /\ procs' = Terminate(procs, recording_process)]_vars
  /\ [][(pc = "stopping" /\ pc' # "stopping" /\ interrupted' = interrupted) =>
          nStops' = nStops + 1]_vars

C8_Witness ==
  /\ Cardinality(Started) = 2 /\ nUpRec = 2 /\ nStops = 1
  /\ pc = "exited" /\ interrupted

\* C9: handling a trigger key-down while Recording starts, replaces and
\* signals nothing and leaves the state machine where it was.
C9_DownWhileRecordingIgnored ==
  [][Handles("down_rec") =>
        UNCHANGED <<pc, recording_process, procs, stalled, nStops, type_calls, exit_code>>]_vars

C9_Witness ==
  /\ last = "down_rec" /\ pc = "read"
  /\ recording_process # None /\ procs[recording_process] = "running"

\* C10: handling a trigger key-up while Idle issues no stop, runs no
\* pipeline, logs no error and leaves the state Idle.
C10_UpWhileIdleIgnored ==
  [][Handles("up_idle") =>
        /\ UNCHANGED <<pc, recording_process, procs, nStops, type_calls, exit_code>>
        /\ log' = "none"]_vars

C10_Witness == last = "up_idle" /\ pc = "read" /\ recording_process = None /\ Started # {}

\* the transcription of the artifact is not blank, so the typing stage is
\* reached
TypingReached == Strip(WhisperText(segments)) # <<>>

\* the step of the script in which type_text is called on a segment
TypeTextCalled ==
  /\ s_pc = "loop"
  /\ s_idx' = s_idx + 1
  /\ Strip(segments[s_idx + 1]) # <<>>

\* C11: with the typing executable unresolvable or the daemon socket
\* absent no injection call is ever made; a call of type_text logs that
\* specific error and ends the script; the listener, once its round is
\* over, is back in Idle and goes on running, and has logged that specific
\* error if the transcription did not fail and the typing stage was reached.
C11_TypingPrecheck ==
  /\ [](~(ydotool_ok /\ socket_ok) =>
          /\ type_calls = <<>>
          /\ s_calls = <<>>
          /\ pc \in {"transcribing", "read"}
          /\ pc = "read" => recording_process = None
          /\ (pc = "read" /\ TypingReached /\ log # "stt_failed") =>
               log = (IF ~ydotool_ok THEN "ydotool_not_found" ELSE "socket_missing"))
  /\ [][(TypeTextCalled /\ ~(ydotool_ok /\ socket_ok)) =>
          /\ s_log' = (IF ~ydotool_ok THEN "ydotool_not_found" ELSE "socket_missing")
          /\ s_pc' = "failed"
          /\ s_calls' = s_calls]_vars

C11_Witness ==
  /\ ydotool_ok /\ ~socket_ok /\ TypingReached
  /\ pc = "read" /\ log = "socket_missing" /\ recording_process = None
  /\ s_pc = "failed" /\ type_calls = <<>>

\* C13: whenever the artifact is handed to model.transcribe, the artifact
\* file exists.
C13_ArtifactExists == pc = "transcribing" => audio_file # 0

\* C15: the listener ends with status 1 when the capture executable is
\* missing at first use, and with status 0 after an operator interrupt, in
\* whatever state the interrupt arrived.
C15_ExitCodes ==
  pc = "exited" =>
    /\ log = "arecord_not_found" => exit_code = 1
    /\ interrupted => exit_code = 0

\* C18: handling a non-key event, a key other than the trigger or a repeat
\* starts and stops no capture process, runs no pipeline and leaves the
\* session slot as it was.
C18_OtherEventsIgnored ==
  [][Handles("other") =>
        /\ UNCHANGED <<pc, recording_process, procs, stalled, audio_file,
                       nStops, type_calls, exit_code>>
        /\ log' = "none"]_vars

C18_Witness ==
  /\ last = "other" /\ pc = "read" /\ recording_process # None
  /\ procs[recording_process] = "running" /\ arrived >= 2

\* C19: an artifact handed to model.transcribe was written by the capture
\* session that the key-up has just stopped.
C19_FreshArtifact ==
  (pc = "transcribing" /\ audio_file # 0) => audio_file = recording_process

\* the typing calls the claim expects for a sequence of segments: one per
\* segment that is non-empty after trimming, trimmed, plus one space
RECURSIVE Expected(_)
Expected(segs) ==
  IF segs = <<>> THEN <<>>
  ELSE IF Strip(Head(segs)) = <<>> THEN Expected(Tail(segs))
  ELSE <<Strip(Head(segs)) \o <<" ">> >> \o Expected(Tail(segs))

IsPrefix(a, b) == Len(a) <= Len(b) /\ SubSeq(b, 1, Len(a)) = a

\* C12 (as stated): a finished pipeline, the script's or the listener's,
\* has made exactly the expected calls.
C12_OneCallPerSegment ==
  /\ s_pc \in {"done", "failed"} => s_calls = Expected(segments)
  /\ pc = "read" => type_calls = Expected(segments)

\* C12 (amended): the script makes the expected calls in order up to the
\* first typing failure, all of them when it ends with status 0, and fewer
\* only when it failed; the listener makes at most one call, the trimmed
\* whole transcription followed by one space, and makes it whenever the
\* transcription succeeds, is not blank and both typing checks pass.
C12_CallsPerPipeline ==
  /\ IsPrefix(s_calls, Expected(segments))
  /\ s_pc = "done" => s_calls = Expected(segments)
  /\ Len(type_calls) <= 1
  /\ \A i \in 1..Len(type_calls) :
       type_calls[i] = Strip(WhisperText(segments)) \o <<" ">>
  /\ (pc = "read" /\ Expected(segments) # <<>> /\ ydotool_ok /\ socket_ok) =>
       (Len(type_calls) = 1 \/ log = "stt_failed")

C12_Witness ==
  /\ s_pc = "done" /\ Len(s_calls) = 2 /\ s_calls[1] # s_calls[2]
  /\ pc = "read" /\ Len(type_calls) = 1

Blank(t) == \A i \in 1..Len(t) : t[i] = " "

\* C17: an artifact whose segments are all blank leads to no typing call,
\* and no typing call ever carries a blank text.
C17_SilenceTypesNothing ==
  /\ (\A i \in 1..Len(segments) : Blank(segments[i])) => (s_calls = <<>> /\ type_calls = <<>>)
  /\ \A i \in 1..Len(s_calls) : ~Blank(s_calls[i])
  /\ \A i \in 1..Len(type_calls) : ~Blank(type_calls[i])

C17_Witness ==
  /\ Len(segments) = 2 /\ segments[1] # <<>> /\ Blank(segments[1]) /\ Blank(segments[2])
  /\ ydotool_ok /\ socket_ok
  /\ s_pc = "done" /\ pc = "read" /\ s_calls = <<>> /\ type_calls = <<>>

Devs == {glob[i] : i \in DOMAIN glob}

\* openable devices whose capability set contains the trigger keycode
TriggerDevs ==
  {d \in Devs : dev[d].openable /\ dev[d].ev_key /\ trigger_keycode \in dev[d].keys}

\* openable devices whose name contains keyboard, key or kbd in any case
NameDevs ==
  {d \in Devs : dev[d].openable /\ dev[d].name \in {<<"K", "b", "d">>, <<"K", "E", "Y">>}}

\* main() has chosen a device path or given up
Decided == r_pc \in {"open", "listening", "exit1"}

ResolutionFailed == r_pc = "exit1" /\ r_path = <<>>

\* C14 (as stated): with no trigger-capable device, the lowest name-matching
\* device is used, else the configured path if it exists, else the process
\* exits non-zero.
C14_FallbackOrder ==
  (Decided /\ TriggerDevs = {}) =>
     IF NameDevs # {} THEN r_path = <<"event", Lowest(NameDevs)>>
     ELSE IF cfg_exists THEN r_path = <<"configured">>
     ELSE ResolutionFailed

\* C14 (amended): as stated when evdev knows the trigger keycode; with an
\* unknown trigger keycode the name fallback is skipped and the configured
\* path is used if it exists, else the process exits non-zero.
C14_FallbackOrderKnownKey ==
  (Decided /\ TriggerDevs = {}) =>
     IF trigger_keycode \in KnownCodes /\ NameDevs # {}
     THEN r_path = <<"event", Lowest(NameDevs)>>
     ELSE IF cfg_exists THEN r_path = <<"configured">>
     ELSE ResolutionFailed

C14_Witness ==
  /\ r_pc = "listening" /\ TriggerDevs = {} /\ Cardinality(NameDevs) = 2
  /\ glob[1] > glob[2] /\ dev[0].name # dev[1].name
  /\ r_path = <<"event", 0>>

\* C16: when some openable device has the trigger keycode, the
\* lowest-numbered such device is the one detected and used, whatever the
\* names and whichever devices fail to open.
C16_LowestTriggerDevice ==
  (r_pc # "start" /\ TriggerDevs # {}) =>
     /\ r_detected = <<Lowest(TriggerDevs)>>
     /\ Decided => r_path = <<"event", Lowest(TriggerDevs)>>

\* C21: the device find_keyboard_device selects, by capability match or by
\* name match, is in the list of potential keyboard devices that
\* detect_keyboard_devices builds for the same devices and trigger keycode.
C21_HelperListsSelected ==
  (r_pc # "start" /\ h_pc = "done" /\ r_detected # <<>>) =>
     \E i \in DOMAIN found_devices : found_devices[i] = r_detected[1]

====
